---- MODULE Spec2Model ----
(***************************************************************************)
(* Model of offline_fs: the indexing engine (file_system.py, FileSystem)   *)
(* and the navigation shell (fsshell.py, FsShell).                         *)
(*                                                                         *)
(* Paths are sequences of leaf names: <<"home","proj">> is /home/proj and  *)
(* <<>> is "/".  The tables of the store are sequences of rows in          *)
(* insertion (rowid) order.                                                *)
(***************************************************************************)
EXTENDS Integers, Sequences, FiniteSets, TLC

\* ------------------------------------------------------------------ bounds

\* index invocations made against one store
MaxCalls == 2

\* navigation commands issued in one shell session
MaxCmds == 3

\* index invocations that have built the store a shell session is followed on
MaxShellCalls == 1

\* --------------------------------------------------------- program constants

INVALID_INODE == -1

\* FileSystem.__init__: root = 1
ROOT_ID == 1

\* InodeType (IntFlag, auto()): FILE, DIRECTORY, SOFTLINK; InodeType(0) is the
\* tag of an entry that is none of them
FILE == 1

DIRECTORY == 2

SOFTLINK == 8

NOTYPE == 0

\* ------------------------------------------------------- the live filesystem
\* The directory tree that os.path.isdir, os.scandir and os.stat observe.
\* ls lists the entries of a directory; the order in which os.scandir yields
\* them is the file system's, any order at each scan (see ScanOrders).  A path
\* is the sequence of its names, <<>> being "/".
\* is_dir, is_file and os.stat follow symbolic links, so a link to a directory
\* or to a regular file is not told apart from its target; "symlink" is a link to
\* something else that exists (a device node), "deadlink" a link whose target
\* does not exist.

FsTree ==
  { [path |-> <<>>,                       kind |-> "dir",     uid |-> 0,    gid |-> 0,
       ls |-> <<"proj", "home", "tmp", "dead">>],
    [path |-> <<"dead">>,                 kind |-> "deadlink", uid |-> 1000, gid |-> 100, ls |-> <<>>],
    [path |-> <<"proj">>,                 kind |-> "dir",     uid |-> 1000, gid |-> 100,
       ls |-> <<"src", "README", "docs">>],
    [path |-> <<"proj", "README">>,       kind |-> "file",    uid |-> 1000, gid |-> 100, ls |-> <<>>],
    [path |-> <<"proj", "src">>,          kind |-> "dir",     uid |-> 1000, gid |-> 100,
       ls |-> <<"sock", "main">>],
    [path |-> <<"proj", "src", "main">>,  kind |-> "file",    uid |-> 1001, gid |-> 100, ls |-> <<>>],
    [path |-> <<"proj", "src", "sock">>,  kind |-> "socket",  uid |-> 1000, gid |-> 100, ls |-> <<>>],
    [path |-> <<"proj", "docs">>,         kind |-> "dir",     uid |-> 1000, gid |-> 100,
       ls |-> <<"link">>],
    [path |-> <<"proj", "docs", "link">>, kind |-> "symlink", uid |-> 1000, gid |-> 200, ls |-> <<>>],
    [path |-> <<"home">>,                 kind |-> "dir",     uid |-> 1000, gid |-> 100,
       ls |-> <<"notes", "proj", ".cfg">>],
    [path |-> <<"home", ".cfg">>,         kind |-> "file",    uid |-> 1000, gid |-> 100, ls |-> <<>>],
    [path |-> <<"home", "proj">>,         kind |-> "dir",     uid |-> 1001, gid |-> 100,
       ls |-> <<"src">>],
    [path |-> <<"home", "proj", "src">>,  kind |-> "dir",     uid |-> 1001, gid |-> 100, ls |-> <<>>],
    [path |-> <<"home", "notes">>,        kind |-> "file",    uid |-> 1000, gid |-> 100, ls |-> <<>>],
    [path |-> <<"tmp">>,                  kind |-> "dir",     uid |-> 1000, gid |-> 100,
       ls |-> <<"dead">>],
    [path |-> <<"tmp", "dead">>,          kind |-> "deadlink", uid |-> 1000, gid |-> 100, ls |-> <<>>] }

FsPaths == { n.path : n \in FsTree }

\* the file a path names: the path without the mark of a leading "//", which
\* the operating system reads as "/" (a path that begins with exactly two
\* slashes is the sequence of its names behind an empty first element)
OsPath(p) == IF p # <<>> /\ Head(p) = "" THEN Tail(p) ELSE p

FsNode(p) == CHOOSE n \in FsTree : n.path = OsPath(p)

\* the working directory of the process (os.path.abspath joins it to a relative path)
Cwd == <<"home">>

\* ------------------------------------------------------------ path helpers

Last(s) == s[Len(s)]

Front(s) == SubSeq(s, 1, Len(s) - 1)

IsPrefix(s, t) == Len(s) <= Len(t) /\ SubSeq(t, 1, Len(s)) = s

\* the loop of os.path.normpath over the components of an absolute path: "."
\* and empty components are dropped, ".." removes the component before it (and
\* is dropped at the root)
RECURSIVE NormSegs(_, _)
NormSegs(segs, acc) ==
  IF segs = <<>> THEN acc
  ELSE LET h == Head(segs) IN
       IF h = "." \/ h = "" THEN NormSegs(Tail(segs), acc)
       ELSE IF h = ".." THEN NormSegs(Tail(segs), IF acc = <<>> THEN acc ELSE Front(acc))
       ELSE NormSegs(Tail(segs), Append(acc, h))

\* os.path.normpath of an absolute path given as the components behind its
\* first slash ("/" is <<>>, "//proj" is <<"", "proj">>): a path that begins
\* with exactly two slashes keeps them
Normpath(segs) ==
  IF segs # <<>> /\ Head(segs) = "" /\ ~(Len(segs) >= 2 /\ segs[2] = "")
  THEN <<"">> \o NormSegs(segs, <<>>)
  ELSE NormSegs(segs, <<>>)

\* os.path.abspath(path): arg is [abs |-> BOOLEAN, segs |-> the components]; a
\* relative path is joined to the working directory
Abspath(arg) == Normpath(IF arg.abs THEN arg.segs ELSE Cwd \o arg.segs)

\* PurePath(path).name: the last component, empty for "/" and "//"
PathName(path) == IF path = <<>> THEN "" ELSE Last(path)

\* the path lookup of the operating system from the directory cur along the
\* components segs: a component is looked up in a directory only, "." and an
\* empty component stay there, ".." is the parent (of "/", "/" itself), a name
\* is the entry of that name; ok is false when the lookup fails
RECURSIVE Lookup(_, _)
Lookup(cur, segs) ==
  IF segs = <<>> THEN [ok |-> TRUE, path |-> cur]
  ELSE IF ~(cur \in FsPaths /\ FsNode(cur).kind = "dir") THEN [ok |-> FALSE, path |-> cur]
  ELSE LET h == Head(segs) IN
       IF h = "." \/ h = "" THEN Lookup(cur, Tail(segs))
       ELSE IF h = ".." THEN Lookup(IF cur = <<>> THEN cur ELSE Front(cur), Tail(segs))
       ELSE Lookup(Append(cur, h), Tail(segs))

\* os.path.isdir(path) of a path as it is written: arg is [abs |-> BOOLEAN,
\* segs |-> the components]; the empty string ([abs |-> FALSE, segs |-> <<>>])
\* names no file
IsDir(arg) ==
  /\ arg.abs \/ arg.segs # <<>>
  /\ LET r == Lookup(IF arg.abs THEN <<>> ELSE Cwd, arg.segs)
     IN  r.ok /\ r.path \in FsPaths /\ FsNode(r.path).kind = "dir"

\* the orders in which os.scandir may yield the n entries of a directory: every
\* arrangement of them, an order being the sequence of the positions in ls
ScanOrders(n) == { o \in [1..n -> 1..n] : \A j, k \in 1..n : o[j] = o[k] => j = k }

Order(order, ls) == [k \in 1..Len(ls) |-> ls[order[k]]]

\* -------------------------------------------------------------- the state

VARIABLES
  db,       \* the persisted store: the tables Inode, Directory, Ancestor, FullPath, User, Group
  cache,    \* the lru_cache of get_or_create_user / get_or_create_group of this process
  proc,     \* "none" | "indexer" | "shell": what the running process is doing
  rootRef,  \* FileSystem._root_inode
  pc,       \* "idle" | "tx": inside the atomic block of index or not
  stack,    \* the explicit stack of the traversal
  call,     \* the index invocation in progress or last finished: its path, environment, store
            \* before, and the directories its traversal has pushed and popped so far
  outcome,  \* how the last index invocation ended
  calls,    \* index invocations made so far
  indexed,  \* the directories whose index invocation succeeded on this store
  sh,       \* the shell's _current_inode, _last_inode and _current_children
  cmd,      \* the last shell command: its name, argument, the state before it, how it
            \* ended, the names it printed
  cmds      \* shell commands issued in this session

vars ==
  <<db, cache, proc, rootRef, pc, stack, call, outcome, calls, indexed, sh, cmd, cmds>>

\* A reference to an Inode as Python holds it: the integer id, or an Inode model
\* instance.  Model.__eq__ compares class and primary key, and an int never
\* equals a model instance, so Python's == on references is equality of these records.
IntRef(i) == [tag |-> "int", id |-> i]

ModelRef(i) == [tag |-> "model", id |-> i]

EmptyDb ==
  [inodes |-> <<>>, directory |-> <<>>, ancestor |-> <<>>, fullpath |-> <<>>,
   users |-> {}, groups |-> {}]

EmptyCache == [users |-> {}, groups |-> {}]

NoEnv == [denied |-> {}, vanished |-> {}, noUser |-> {}, noGroup |-> {}]

NoArg == [abs |-> TRUE, segs |-> <<>>]

NoCall ==
  [arg |-> NoArg, path |-> <<>>, env |-> NoEnv, pre |-> EmptyDb, tx |-> EmptyDb, root |-> INVALID_INODE,
   before |-> {}, popped |-> <<>>, pushed |-> <<>>]

NoSh == [current |-> IntRef(INVALID_INODE), last |-> IntRef(INVALID_INODE), children |-> <<>>]

NoCmd == [name |-> "none", arg |-> <<>>, pre |-> NoSh, err |-> "none", out |-> <<>>]

\* ------------------------------------------------------- store: queries

InodeIds(d) == 1..Len(d.inodes)

\* Directory.select().where(Directory.inode == parent): the children, in rowid order
ChildrenOf(d, parent) ==
  LET T(r) == r.inode = parent
      rows == SelectSeq(d.directory, T)
  IN  [i \in 1..Len(rows) |-> rows[i].child]

\* FullPath.select().where(FullPath.inode == i)
PathsOf(d, i) ==
  LET T(r) == r.inode = i
      rows == SelectSeq(d.fullpath, T)
  IN  [k \in 1..Len(rows) |-> rows[k].path]

\* ------------------------------------------------------- store: writes

\* FileSystem.get_or_create_user (lru_cache): a cached uid is returned without
\* looking at the store; pwd.getpwuid raises KeyError for an unknown uid, and a
\* call that raised is not cached
GetOrCreateUser(d, c, env, uid) ==
  IF uid \in c.users THEN [err |-> "none", db |-> d, cache |-> c]
  ELSE IF uid \in d.users
       THEN [err |-> "none", db |-> d, cache |-> [c EXCEPT !.users = @ \cup {uid}]]
  ELSE IF uid \in env.noUser
       THEN [err |-> "IdentityNotFound", db |-> d, cache |-> c]
  ELSE [err |-> "none", db |-> [d EXCEPT !.users = @ \cup {uid}],
        cache |-> [c EXCEPT !.users = @ \cup {uid}]]

\* FileSystem.get_or_create_group (lru_cache)
GetOrCreateGroup(d, c, env, gid) ==
  IF gid \in c.groups THEN [err |-> "none", db |-> d, cache |-> c]
  ELSE IF gid \in d.groups
       THEN [err |-> "none", db |-> d, cache |-> [c EXCEPT !.groups = @ \cup {gid}]]
  ELSE IF gid \in env.noGroup
       THEN [err |-> "IdentityNotFound", db |-> d, cache |-> c]
  ELSE [err |-> "none", db |-> [d EXCEPT !.groups = @ \cup {gid}],
        cache |-> [c EXCEPT !.groups = @ \cup {gid}]]

\* FileSystem.create_inode: get_stat (os.stat raises FileNotFoundError for a path
\* that vanished and for a link without target), then owner and group in the order of the keyword arguments,
\* then the Inode row (AutoField: the next rowid) and its FullPath row.  Both
\* call sites pass a full_path that is truthy.
CreateInode(d, c, env, name, path, inode_type, full_path) ==
  LET st == FsNode(path)
      u  == GetOrCreateUser(d, c, env, st.uid)
      g  == GetOrCreateGroup(u.db, u.cache, env, st.gid)
      id == Len(g.db.inodes) + 1
  IN  IF OsPath(path) \in env.vanished \/ st.kind = "deadlink"
      THEN [err |-> "PathNotFound", db |-> d, cache |-> c, id |-> INVALID_INODE]
      ELSE IF u.err # "none"
      THEN [err |-> u.err, db |-> u.db, cache |-> u.cache, id |-> INVALID_INODE]
      ELSE IF g.err # "none"
      THEN [err |-> g.err, db |-> g.db, cache |-> g.cache, id |-> INVALID_INODE]
      ELSE [err |-> "none",
            db |-> [g.db EXCEPT
                      !.inodes = Append(@, [node_type |-> inode_type, name |-> name,
                                            owner |-> st.uid, group |-> st.gid]),
                      !.fullpath = Append(@, [inode |-> id, path |-> full_path])],
            cache |-> g.cache, id |-> id]

\* link_parent with the two columns of the row exchanged
LinkParentSwapped(d, parent, child) ==
  [d EXCEPT !.directory = Append(@, [inode |-> child, child |-> parent])]

\* FileSystem.link_parent
LinkParent(d, parent, child) ==
  [d EXCEPT !.directory = Append(@, [inode |-> parent, child |-> child])]

\* link_ancestors with the Inode counted among its own ancestors
LinkAncestorsWithSelf(d, ancestors, inode) ==
  [d EXCEPT !.ancestor =
     @ \o [k \in 1..(Len(ancestors) + 1) |->
             [ancestor |-> Append(ancestors, inode)[k], inode |-> inode]]]

\* FileSystem.link_ancestors: one Ancestor row per element of the list
LinkAncestors(d, ancestors, inode) ==
  [d EXCEPT !.ancestor =
     @ \o [k \in 1..Len(ancestors) |-> [ancestor |-> ancestors[k], inode |-> inode]]]

\* ------------------------------------------------------------ FileSystem.index

\* exist_index: a Directory row of the synthetic root whose child has a FullPath
\* row equal to str(path), the absolute path of the directory to index
ExistIndex(d, root, path) ==
  \E i \in 1..Len(d.directory) : \E k \in 1..Len(d.fullpath) :
     /\ d.directory[i].inode = root
     /\ root \in InodeIds(d)
     /\ d.fullpath[k].inode = d.directory[i].child
     /\ d.fullpath[k].path = path

\* new_root_path = PurePath('/' + path.name)
NewRootPath(path) == IF PathName(path) = "" THEN <<>> ELSE <<PathName(path)>>

\* the path create_inode falls back to without a full_path: the absolute real path
VirtualPathAbsolute(path, entry_path) == entry_path

\* new_root_path / entry_path.relative_to(path)
VirtualPath(path, entry_path) ==
  NewRootPath(path) \o SubSeq(entry_path, Len(path) + 1, Len(entry_path))

\* the type given to a scandir entry: is_dir, then is_file, then is_symlink
Classify(entry_path) ==
  LET k == FsNode(entry_path).kind
  IN  IF k = "dir" THEN DIRECTORY
      ELSE IF k = "file" THEN FILE
      ELSE IF k \in {"symlink", "deadlink"} THEN SOFTLINK
      ELSE NOTYPE

\* the body of "for entry in os.scandir(visiting)" over the entries left
RECURSIVE ScanEntries(_, _, _, _, _)
ScanEntries(names, ctx, d, c, st) ==
  IF names = <<>> THEN [err |-> "none", db |-> d, cache |-> c, stack |-> st]
  ELSE
    LET entry_path == Append(ctx.visiting, Head(names))
        inode_type == Classify(entry_path)
        r  == CreateInode(d, c, ctx.env, Head(names), entry_path, inode_type,
                          VirtualPath(ctx.path, entry_path))
        d2 == LinkAncestors(LinkParent(r.db, ctx.visiting_inode, r.id), ctx.ancestors, r.id)
        s2 == IF inode_type = DIRECTORY
              THEN Append(st, [path |-> entry_path, inode |-> r.id, ancestors |-> ctx.ancestors])
              ELSE st
    IN  IF inode_type = NOTYPE THEN ScanEntries(Tail(names), ctx, d, c, st)
        ELSE IF r.err # "none"
             THEN [err |-> r.err, db |-> r.db, cache |-> r.cache, stack |-> st]
        ELSE ScanEntries(Tail(names), ctx, d2, r.cache, s2)

\* what os.scandir(visiting) yields; a PermissionError is caught by the except
\* clause around the loop, which then has run over no entry
Scandir(env, visiting, order) ==
  IF OsPath(visiting) \in env.denied THEN <<>> ELSE Order(order, FsNode(visiting).ls)

\* the iteration with the try statement around the while loop instead of the
\* for loop: a PermissionError ends the traversal
PopAndScanUntilDenied(d, c, st, env, path, order) ==
  LET top == st[Len(st)]
      ctx == [env |-> env, path |-> path, visiting |-> top.path,
              visiting_inode |-> top.inode,
              ancestors |-> Append(top.ancestors, top.inode)]
  IN  IF OsPath(top.path) \in env.denied
      THEN [err |-> "none", db |-> d, cache |-> c, stack |-> <<>>]
      ELSE ScanEntries(Order(order, FsNode(top.path).ls), ctx, d, c, Front(st))

\* one iteration of "while stack": take the top element, extend its ancestor
\* list by the visited Inode, pop it, and scan the directory
PopAndScan(d, c, st, env, path, order) ==
  LET top == st[Len(st)]
      ctx == [env |-> env, path |-> path, visiting |-> top.path,
              visiting_inode |-> top.inode,
              ancestors |-> Append(top.ancestors, top.inode)]
  IN  ScanEntries(Scandir(env, top.path, order), ctx, d, c, Front(st))

\* the store after an exception has left the atomic block
Rollback(d, tx) == tx

\* ------------------------------------------------------ FileSystem.__init__

\* get or create the root node: Inode.create and FullPath.create when no Inode
\* has id 1
InitStore(d) ==
  IF ROOT_ID \in InodeIds(d) THEN d
  ELSE [d EXCEPT
          !.inodes = Append(@, [node_type |-> DIRECTORY, name |-> "/", owner |-> 0, group |-> 0]),
          !.fullpath = Append(@, [inode |-> Len(d.inodes) + 1, path |-> <<>>])]

\* self._root_inode: the integer 1 when the row was there, else the created model
InitRootRef(d) ==
  IF ROOT_ID \in InodeIds(d) THEN IntRef(ROOT_ID) ELSE ModelRef(Len(d.inodes) + 1)

\* ------------------------------------------------------------ store: reads

\* FileSystem.is_dir
IsDirInode(d, id) == id \in InodeIds(d) /\ d.inodes[id].node_type = DIRECTORY

\* list_inode answering every Inode below the directory, from the Ancestor table
ListInodeDescendants(d, id, get_self) ==
  LET T(i) == \E k \in 1..Len(d.ancestor) : d.ancestor[k].ancestor = id /\ d.ancestor[k].inode = i
  IN  IF id \notin InodeIds(d) THEN <<>>
      ELSE IF d.inodes[id].node_type = DIRECTORY /\ ~get_self
      THEN SelectSeq([i \in 1..Len(d.inodes) |-> i], T)
      ELSE <<id>>

\* FileSystem.list_inode: None (here the empty list) for an unknown id, the
\* children of a directory unless get_self, else the Inode itself
ListInode(d, id, get_self) ==
  IF id \notin InodeIds(d) THEN <<>>
  ELSE IF d.inodes[id].node_type = DIRECTORY /\ ~get_self THEN ChildrenOf(d, id)
  ELSE <<id>>

\* get_parent_inode_id answering the Inode itself where it has no parent, as
\* "/.." is "/"
GetParentOrSelf(d, id) ==
  LET T(r) == r.child = id
      rows == SelectSeq(d.directory, T)
  IN  IF rows # <<>> THEN ModelRef(rows[1].inode) ELSE ModelRef(id)

\* FileSystem.get_parent_inode_id: result[0].inode is the related Inode model
\* of the first Directory row whose child is the Inode, INVALID_INODE without one
GetParentInodeId(d, id) ==
  LET T(r) == r.child = id
      rows == SelectSeq(d.directory, T)
  IN  IF rows # <<>> THEN ModelRef(rows[1].inode) ELSE IntRef(INVALID_INODE)

\* FileSystem.get_full_path
GetFullPath(d, id) ==
  LET ps == PathsOf(d, id) IN IF ps # <<>> THEN <<ps[1]>> ELSE <<>>

\* ------------------------------------------------------------ FsShell

\* change_directory without the is_dir test
ChangeDirectoryUnchecked(s, d, root, new_dir_inode) ==
  IF s.current = new_dir_inode /\ new_dir_inode # root
  THEN [ok |-> FALSE, sh |-> s]
  ELSE [ok |-> TRUE,
        sh |-> [current |-> new_dir_inode, last |-> s.current,
                children |-> ListInode(d, new_dir_inode.id, FALSE)]]

\* change_directory without the refresh of _current_children
ChangeDirectoryStaleChildren(s, d, root, new_dir_inode) ==
  IF s.current = new_dir_inode /\ new_dir_inode # root
  THEN [ok |-> FALSE, sh |-> s]
  ELSE IF ~IsDirInode(d, new_dir_inode.id)
  THEN [ok |-> FALSE, sh |-> s]
  ELSE [ok |-> TRUE,
        sh |-> [current |-> new_dir_inode, last |-> s.current, children |-> s.children]]

\* change_directory without the assignment to _last_inode
ChangeDirectoryKeepsLast(s, d, root, new_dir_inode) ==
  IF s.current = new_dir_inode /\ new_dir_inode # root
  THEN [ok |-> FALSE, sh |-> s]
  ELSE IF ~IsDirInode(d, new_dir_inode.id)
  THEN [ok |-> FALSE, sh |-> s]
  ELSE [ok |-> TRUE,
        sh |-> [current |-> new_dir_inode, last |-> s.last,
                children |-> ListInode(d, new_dir_inode.id, FALSE)]]

\* FsShell.change_directory: [ok, sh]
ChangeDirectory(s, d, root, new_dir_inode) ==
  IF s.current = new_dir_inode /\ new_dir_inode # root
  THEN [ok |-> FALSE, sh |-> s]
  ELSE IF ~IsDirInode(d, new_dir_inode.id)
  THEN [ok |-> FALSE, sh |-> s]
  ELSE [ok |-> TRUE,
        sh |-> [current |-> new_dir_inode, last |-> s.current,
                children |-> ListInode(d, new_dir_inode.id, FALSE)]]

\* FsShell.__init__: both fields are the root, then change_directory(root)
ShellInit(d, root) ==
  ChangeDirectory([current |-> root, last |-> root, children |-> <<>>], d, root, root).sh

\* the cached children whose name is the segment, in list order
ChildrenNamed(s, d, directory) ==
  LET T(c) == d.inodes[c].name = directory
  IN  SelectSeq(s.children, T)

\* FsShell.cd_from_current_dir: [ok, sh, err]; the result of change_directory
\* is not looked at
CdFromCurrentDir(s, d, root, directory) ==
  IF directory = "" THEN [ok |-> TRUE, sh |-> s, err |-> "none"]
  ELSE IF directory = "." THEN [ok |-> TRUE, sh |-> s, err |-> "none"]
  ELSE IF directory = ".."
  THEN LET parent == GetParentInodeId(d, s.current.id)
       IN  IF parent # IntRef(INVALID_INODE)
           THEN [ok |-> TRUE, sh |-> ChangeDirectory(s, d, root, parent).sh, err |-> "none"]
           ELSE [ok |-> FALSE, sh |-> s, err |-> "NoParent"]
  ELSE LET children == ChildrenNamed(s, d, directory)
       IN  IF children # <<>>
           THEN [ok |-> TRUE,
                 sh |-> ChangeDirectory(s, d, root, IntRef(children[1])).sh,
                 err |-> IF IsDirInode(d, children[1]) THEN "none" ELSE "NotADirectory"]
           ELSE [ok |-> FALSE, sh |-> s, err |-> "NoSuchChild"]

\* str.split('/') of a word given as its tokens, a token being a name or "/":
\* cur is the segment being read
RECURSIVE SplitSlash(_, _, _)
SplitSlash(toks, cur, acc) ==
  IF toks = <<>> THEN Append(acc, cur)
  ELSE IF Head(toks) = "/" THEN SplitSlash(Tail(toks), "", Append(acc, cur))
  ELSE SplitSlash(Tail(toks), Head(toks), acc)

Split(word) == SplitSlash(word, "", <<>>)

\* the loop "for dir_name in path" of do_cd, which stops at the first segment
\* that cd_from_current_dir refuses: [ok, sh, err]
RECURSIVE WalkPath(_, _, _, _, _)
WalkPath(path, s, d, root, err) ==
  IF path = <<>> THEN [ok |-> TRUE, sh |-> s, err |-> err]
  ELSE LET r == CdFromCurrentDir(s, d, root, Head(path))
       IN  IF ~r.ok THEN [ok |-> FALSE, sh |-> r.sh, err |-> r.err]
           ELSE WalkPath(Tail(path), r.sh, d, root, IF r.err # "none" THEN r.err ELSE err)

\* the end of do_cd without the change back to the saved cursor
CdFinishNoRollback(s0, w, d, root) == [w.sh EXCEPT !.last = s0.last]

\* the end of do_cd: after a refused segment change_directory(current_inode)
\* with the cursor saved at the start, then _last_inode is set to the saved one
CdFinish(s0, w, d, root) ==
  LET s1 == IF w.ok THEN w.sh ELSE ChangeDirectory(w.sh, d, root, s0.current).sh
  IN  [s1 EXCEPT !.last = s0.last]

\* FsShell.do_cd on shlex.split(arg) = args: [sh, err, raised].  An empty arg
\* changes to the root and goes on to args[0], which raises IndexError.
DoCd(s, d, root, args) ==
  IF args = <<>>
  THEN [sh |-> ChangeDirectory(s, d, root, root).sh, err |-> "IndexError", raised |-> TRUE]
  ELSE IF Len(args) > 1
  THEN [sh |-> s, err |-> "TooManyArguments", raised |-> FALSE]
  ELSE LET path == Split(args[1])
           w == WalkPath(path, s, d, root, "none")
       IN  IF path[1] = "-"
           THEN IF Len(path) = 1
                THEN [sh |-> IF s.last # IntRef(INVALID_INODE)
                             THEN ChangeDirectory(s, d, root, s.last).sh ELSE s,
                      err |-> "none", raised |-> FALSE]
                ELSE [sh |-> s, err |-> "TooManyArguments", raised |-> FALSE]
           ELSE [sh |-> CdFinish(s, w, d, root), err |-> w.err, raised |-> FALSE]

\* the order of str on the names that occur (code point order), smallest first
NameOrder ==
  <<"", ".cfg", "/", "README", "dead", "docs", "home", "link", "main", "notes", "proj",
    "sock", "src", "tmp">>

\* the position of a name in that order
NameRank(name) == CHOOSE k \in 1..Len(NameOrder) : NameOrder[k] = name

\* name.startswith('.'): the names with a leading dot
StartsWithDot(name) == name \in {".cfg"}

\* one insertion of sorted(): x goes behind every element whose name is not
\* greater, which keeps equal names in their order (the sort is stable)
RECURSIVE InsertByName(_, _, _)
InsertByName(sorted, x, d) ==
  IF sorted = <<>> THEN <<x>>
  ELSE IF NameRank(d.inodes[Head(sorted)].name) <= NameRank(d.inodes[x].name)
  THEN <<Head(sorted)>> \o InsertByName(Tail(sorted), x, d)
  ELSE <<x>> \o sorted

\* sorted(inodes, key=lambda n: n.name)
RECURSIVE SortedByName(_, _)
SortedByName(inodes, d) ==
  IF inodes = <<>> THEN <<>>
  ELSE InsertByName(SortedByName(Front(inodes), d), Last(inodes), d)

\* FsShell.resolve: nothing yet
Resolve(paths) == <<>>

\* FsShell.do_ls on the parsed arguments [hidden, paths]: the names printed
DoLs(s, d, args) ==
  LET inodes == IF args.paths = <<>> THEN s.children ELSE Resolve(args.paths)
      sorted == SortedByName(inodes, d)
      T(i) == ~(StartsWithDot(d.inodes[i].name) /\ ~args.hidden)
      shown == SelectSeq(sorted, T)
  IN  [k \in 1..Len(shown) |-> d.inodes[shown[k]].name]

\* ------------------------------------------------------------ the inputs

\* the paths handed to index: absolute ones, ones relative to Cwd ("./proj" is
\* /home/proj, ".." is "/"), one that begins with two slashes, one that goes
\* through a regular file ("/home/notes/..") and the empty string
IndexArgs ==
  { [abs |-> TRUE,  segs |-> <<"proj">>],
    [abs |-> TRUE,  segs |-> <<"home", "proj">>],
    [abs |-> FALSE, segs |-> <<".", "proj">>],
    [abs |-> TRUE,  segs |-> <<"home">>],
    [abs |-> TRUE,  segs |-> <<"home", "notes">>],
    [abs |-> TRUE,  segs |-> <<"tmp">>],
    [abs |-> TRUE,  segs |-> <<"", "proj">>],
    [abs |-> FALSE, segs |-> <<"..">>],
    [abs |-> TRUE,  segs |-> <<"home", "notes", "..">>],
    [abs |-> FALSE, segs |-> <<>>] }

\* what the environment does during one index invocation: the directories whose
\* enumeration raises PermissionError, the paths that vanished before os.stat,
\* the ids pwd.getpwuid / grp.getgrgid cannot resolve
Envs ==
  { NoEnv,
    [NoEnv EXCEPT !.denied = {<<"proj", "src">>}],
    [NoEnv EXCEPT !.vanished = {<<"proj", "src", "main">>}],
    [NoEnv EXCEPT !.vanished = {<<"home", "proj", "src">>}],
    [NoEnv EXCEPT !.noUser = {1001}],
    [NoEnv EXCEPT !.noGroup = {200}] }

\* the environments that go with an index of path: those that differ from
\* NoEnv inside its subtree; a path that is not in its normal form ("//proj",
\* "/") is indexed in NoEnv
EnvsFor(arg) ==
  LET path == Abspath(arg)
  IN  { e \in Envs :
          /\ e # NoEnv => (arg.abs /\ path = arg.segs)
          /\ \A p \in e.denied \cup e.vanished : IsPrefix(path, p)
          /\ \A u \in e.noUser : \E n \in FsTree : IsPrefix(path, n.path) /\ n.uid = u
          /\ \A g \in e.noGroup : \E n \in FsTree : IsPrefix(path, n.path) /\ n.gid = g }

\* the arguments of cd after shlex.split: a list of words, a word being the
\* list of its names and "/" separators
CdArgs ==
  { <<>>,
    << <<"-">> >>,
    << <<"..">> >>,
    << <<".">> >>,
    << <<"proj">> >>,
    << <<"src">> >>,
    << <<"home">> >>,
    << <<"README">> >>,
    << <<"nope">> >>,
    << <<"/">> >>,
    << <<"/", "proj">> >>,
    << <<"proj", "/", "src">> >>,
    << <<"proj", "/", "nope", "/", "src">> >>,
    << <<"proj", "/", "..", "/", "..">> >>,
    << <<"..", "/", "docs">> >>,
    << <<"src", "/", "..", "/", "nope">> >>,
    << <<"README", "/", "src">> >>,
    << <<"-", "/", "src">> >>,
    << <<"proj">>, <<"src">> >> }

\* the arguments of ls after parse_args
LsArgs ==
  { [hidden |-> FALSE, paths |-> <<>>],
    [hidden |-> TRUE,  paths |-> <<>>],
    [hidden |-> FALSE, paths |-> <<"src">>] }

\* ------------------------------------------------------------ the actions

Init ==
  /\ db = EmptyDb
  /\ cache = EmptyCache
  /\ proc = "none"
  /\ rootRef = IntRef(INVALID_INODE)
  /\ pc = "idle"
  /\ stack = <<>>
  /\ call = NoCall
  /\ outcome = "none"
  /\ calls = 0
  /\ indexed = {}
  /\ sh = NoSh
  /\ cmd = NoCmd
  /\ cmds = 0

\* main.py, sub-command index: a new process constructs the FileSystem
StartIndexer ==
  /\ pc = "idle"
  /\ proc' = "indexer"
  /\ db' = InitStore(db)
  /\ rootRef' = InitRootRef(db)
  /\ cache' = EmptyCache
  /\ call' = NoCall
  /\ outcome' = "none"
  /\ sh' = NoSh
  /\ cmd' = NoCmd
  /\ cmds' = 0
  /\ UNCHANGED <<pc, stack, calls, indexed>>

\* FileSystem.index up to the entry of the atomic block.  main.py calls index
\* without a try statement: an exception that leaves index ends the process.
IndexBegin(arg, env) ==
  /\ proc = "indexer"
  /\ pc = "idle"
  /\ calls < MaxCalls
  /\ calls' = calls + 1
  /\ LET path == Abspath(arg)
         r    == CreateInode(db, cache, env, PathName(path), path, DIRECTORY, NewRootPath(path))
         d2   == LinkParent(r.db, rootRef.id, r.id)
         c0   == [arg |-> arg, path |-> path, env |-> env, pre |-> db, tx |-> db, root |-> INVALID_INODE,
                  before |-> indexed, popped |-> <<>>, pushed |-> <<>>]
     IN  IF ~IsDir(arg)
         THEN /\ outcome' = "NotADirectory"
              /\ call' = c0
              /\ proc' = "none"
              /\ UNCHANGED <<db, cache, pc, stack>>
         ELSE IF ExistIndex(db, rootRef.id, path)
         THEN /\ outcome' = "DuplicateIndex"
              /\ call' = c0
              /\ proc' = "none"
              /\ UNCHANGED <<db, cache, pc, stack>>
         ELSE IF r.err # "none"
         THEN /\ outcome' = r.err
              /\ call' = c0
              /\ proc' = "none"
              /\ db' = r.db
              /\ cache' = r.cache
              /\ UNCHANGED <<pc, stack>>
         ELSE /\ outcome' = "running"
              /\ call' = [c0 EXCEPT !.tx = d2, !.root = r.id, !.pushed = <<path>>]
              /\ db' = d2
              /\ cache' = r.cache
              /\ pc' = "tx"
              /\ stack' = <<[path |-> path, inode |-> r.id, ancestors |-> <<>>]>>
              /\ UNCHANGED proc
  /\ UNCHANGED <<rootRef, indexed, sh, cmd, cmds>>

\* one iteration of the while loop inside the atomic block; an exception other
\* than PermissionError leaves the block, rolls the transaction back and ends
\* the process, and the block commits when the stack is empty
IndexStep ==
  /\ pc = "tx"
  /\ stack # <<>>
  /\ \E order \in ScanOrders(Len(FsNode(Last(stack).path).ls)) :
     LET r == PopAndScan(db, cache, stack, call.env, call.path, order)
         new == SubSeq(r.stack, Len(stack), Len(r.stack))
     IN  /\ call' = [call EXCEPT !.popped = Append(@, Last(stack).path),
                                 !.pushed = @ \o [k \in 1..Len(new) |-> new[k].path]]
         /\ IF r.err # "none"
            THEN /\ db' = Rollback(r.db, call.tx)
                 /\ cache' = r.cache
                 /\ stack' = <<>>
                 /\ pc' = "idle"
                 /\ outcome' = r.err
                 /\ proc' = "none"
                 /\ UNCHANGED indexed
            ELSE /\ db' = r.db
                 /\ cache' = r.cache
                 /\ stack' = r.stack
                 /\ pc' = IF r.stack = <<>> THEN "idle" ELSE "tx"
                 /\ outcome' = IF r.stack = <<>> THEN "ok" ELSE "running"
                 /\ indexed' = IF r.stack = <<>> THEN indexed \cup {OsPath(call.path)}
                                                  ELSE indexed
                 /\ UNCHANGED proc
  /\ UNCHANGED <<rootRef, calls, sh, cmd, cmds>>

\* main.py, sub-command interactive: a new process constructs the FileSystem
\* and the FsShell
StartShell ==
  /\ pc = "idle"
  /\ proc' = "shell"
  /\ db' = InitStore(db)
  /\ rootRef' = InitRootRef(db)
  /\ cache' = EmptyCache
  /\ call' = NoCall
  /\ outcome' = "none"
  /\ sh' = ShellInit(InitStore(db), InitRootRef(db))
  /\ cmd' = NoCmd
  /\ cmds' = 0
  /\ UNCHANGED <<pc, stack, calls, indexed>>

\* the command cd; an exception that leaves do_cd ends cmdloop and the process
Cd(args) ==
  /\ proc = "shell"
  /\ cmds < MaxCmds
  /\ LET r == DoCd(sh, db, rootRef, args)
     IN  /\ sh' = r.sh
         /\ cmd' = [name |-> "cd", arg |-> args, pre |-> sh, err |-> r.err, out |-> <<>>]
         /\ proc' = IF r.raised THEN "none" ELSE "shell"
  /\ cmds' = cmds + 1
  /\ UNCHANGED <<db, cache, rootRef, pc, stack, call, outcome, calls, indexed>>

\* the command ls
Ls(args) ==
  /\ proc = "shell"
  /\ cmds < MaxCmds
  /\ cmd' = [name |-> "ls", arg |-> args, pre |-> sh, err |-> "none",
             out |-> DoLs(sh, db, args)]
  /\ cmds' = cmds + 1
  /\ UNCHANGED <<db, cache, proc, rootRef, pc, stack, call, outcome, calls, indexed, sh>>

\* the commands q and exit: do_q and do_exit return True, which ends cmdloop
\* and with it the process and its session
Quit ==
  /\ proc = "shell"
  /\ proc' = "none"
  /\ sh' = NoSh
  /\ cmd' = NoCmd
  /\ cmds' = 0
  /\ UNCHANGED <<db, cache, rootRef, pc, stack, call, outcome, calls, indexed>>

Next ==
  \/ StartIndexer
  \/ StartShell
  \/ \E arg \in IndexArgs : \E env \in EnvsFor(arg) : IndexBegin(arg, env)
  \/ IndexStep
  \/ \E args \in CdArgs : Cd(args)
  \/ \E args \in LsArgs : Ls(args)
  \/ Quit

Spec == Init /\ [][Next]_vars

\* the program run as "main.py index" only: the processes that write the store
IndexNext ==
  \/ StartIndexer
  \/ \E arg \in IndexArgs : \E env \in EnvsFor(arg) : IndexBegin(arg, env)
  \/ IndexStep

IndexSpec == Init /\ [][IndexNext]_vars

\* the program with shell sessions on the stores that at most MaxShellCalls
\* index invocations have built
ShellNext ==
  \/ StartIndexer
  \/ StartShell
  \/ \E arg \in IndexArgs : \E env \in EnvsFor(arg) :
        calls < MaxShellCalls /\ IndexBegin(arg, env)
  \/ IndexStep
  \/ \E args \in CdArgs : Cd(args)
  \/ \E args \in LsArgs : Ls(args)
  \/ Quit

ShellSpec == Init /\ [][ShellNext]_vars

\* ================================================================ properties

\* the Directory rows whose child is Inode i
ParentRows(d, i) == { k \in 1..Len(d.directory) : d.directory[k].child = i }

\* the Inodes reached from x by following Directory rows from child to parent
RECURSIVE ParentChain(_, _, _)
ParentChain(d, x, fuel) ==
  LET ps == { d.directory[k].inode : k \in ParentRows(d, x) }
  IN  IF fuel = 0 THEN {} ELSE ps \cup UNION { ParentChain(d, q, fuel - 1) : q \in ps }

\* the a with a row (a, x) in the Ancestor table
ClosureOf(d, x) ==
  { d.ancestor[k].ancestor : k \in { j \in 1..Len(d.ancestor) : d.ancestor[j].inode = x } }

\* an index invocation has ended (returned or raised)
CallEnded == pc = "idle" /\ outcome \notin {"none", "running"}

\* an index invocation was aborted by an exception raised inside the traversal
AbortedInTraversal ==
  CallEnded /\ call.root # INVALID_INODE /\ outcome \in {"PathNotFound", "IdentityNotFound"}

\* the directory the last index invocation was given
CallDir == OsPath(call.path)

\* the Inodes created by the last index invocation
NewIds == (Len(call.pre.inodes) + 1)..Len(db.inodes)

\* ---------------------------------------------------------------------- C1
\* C1: whenever no index invocation is in progress (after any sequence of store
\* initialisations and index invocations, successful, rejected or aborted),
\* every Inode other than the synthetic root is the child of exactly one
\* Directory row, and the synthetic root is the child of none.
C1_TreeInvariant ==
  pc = "idle" =>
    \A i \in InodeIds(db) :
      Cardinality(ParentRows(db, i)) = IF i = ROOT_ID THEN 0 ELSE 1

\* C1 witness: a second invocation was aborted inside its traversal after an
\* earlier one succeeded, and the store holds Inodes of both
C1_Witness ==
  /\ AbortedInTraversal
  /\ indexed # {}
  /\ Len(db.inodes) > Len(call.pre.inodes)
  /\ Len(call.pre.inodes) > 2

\* ---------------------------------------------------------------------- C2
\* C2 (as claimed): after a successful index, for every Inode x the ancestors
\* recorded in the Ancestor table are exactly the Inodes reached by following
\* the parent edge from x, up to and including the synthetic root.
C2_ClosureEqualsParentChain ==
  (pc = "idle" /\ outcome = "ok") =>
    \A x \in InodeIds(db) : ClosureOf(db, x) = ParentChain(db, x, Len(db.inodes))

\* ---------------------------------------------------------------------- C3
\* C3 (as claimed): an index of a directory whose index already succeeded on
\* this store ends with DuplicateIndex and leaves the store as it was.
C3_SecondIndexRejected ==
  (CallEnded /\ CallDir \in call.before) =>
    (outcome = "DuplicateIndex" /\ db = call.pre)

\* ---------------------------------------------------------------------- C4
\* C4 (as claimed): an index aborted by a fatal error raised during the
\* traversal leaves the store holding exactly the records it held before the call.
C4_AbortLeavesStoreUnchanged ==
  AbortedInTraversal => db = call.pre

\* ---------------------------------------------------------------------- C5
\* the entries of the subtree of path that the traversal reaches when the
\* directories in denied are taken to be empty, the subtree root included
ExpectedNodes(path, denied) ==
  { n \in FsTree :
      /\ IsPrefix(path, n.path)
      /\ Classify(n.path) # NOTYPE
      /\ \A k \in Len(path)..(Len(n.path) - 1) :
            /\ SubSeq(n.path, 1, k) \notin denied
            /\ Classify(SubSeq(n.path, 1, k)) = DIRECTORY }

\* what the store records of Inode i: its paths, type, name, the paths of its
\* parents and of its recorded ancestors
StoredFacts(d, i) ==
  [paths   |-> PathsOf(d, i),
   type    |-> d.inodes[i].node_type,
   name    |-> d.inodes[i].name,
   parents |-> { PathsOf(d, d.directory[k].inode) : k \in ParentRows(d, i) },
   closure |-> { PathsOf(d, a) : a \in ClosureOf(d, i) }]

\* what the store is to record of entry n of the subtree of path
ExpectedFacts(path, n) ==
  LET vp == VirtualPath(path, n.path)
  IN  [paths   |-> <<vp>>,
       type    |-> Classify(n.path),
       name    |-> PathName(n.path),
       parents |-> { <<Front(vp)>> },
       closure |-> { <<SubSeq(vp, 1, k)>> : k \in Len(NewRootPath(path))..(Len(vp) - 1) }]

\* C5: when the enumeration of a directory d of the indexed subtree raises a
\* permission error (and the rest of the subtree holds no link without target,
\* which ends an index by another error), index returns normally, d is stored
\* as a Directory Inode without children, and the Inodes created are exactly
\* those of the subtree with d taken to be empty.
C5_PermissionErrorIsLocal ==
  (/\ pc = "idle" /\ call.root # INVALID_INODE /\ call.env.denied # {}
   /\ \A n \in ExpectedNodes(CallDir, call.env.denied) : n.kind # "deadlink") =>
    /\ outcome = "ok"
    /\ \A p \in call.env.denied :
         \E i \in NewIds :
           /\ PathsOf(db, i) = <<VirtualPath(CallDir, p)>>
           /\ IsDirInode(db, i)
           /\ ChildrenOf(db, i) = <<>>
    /\ { StoredFacts(db, i) : i \in NewIds }
         = { ExpectedFacts(CallDir, n) : n \in ExpectedNodes(CallDir, call.env.denied) }
    /\ Cardinality(NewIds) = Cardinality(ExpectedNodes(CallDir, call.env.denied))

\* C5 witness: /proj was indexed with /proj/src denied, and the entry of its
\* sibling /proj/docs is in the store
C5_Witness ==
  /\ pc = "idle"
  /\ outcome = "ok"
  /\ call.path = <<"proj">>
  /\ call.env.denied = {<<"proj", "src">>}
  /\ \E i \in NewIds : PathsOf(db, i) = << <<"proj", "docs", "link">> >>
  /\ \E i \in NewIds : PathsOf(db, i) = << <<"proj", "src">> >> /\ ChildrenOf(db, i) = <<>>

\* a cd command has been issued in this session; cmd describes the last one
CdIssued == cmds > 0 /\ cmd.name = "cd"

\* the directory children of the synthetic root that are named name, in row order
RootDirsNamed(name) ==
  LET T(c) == db.inodes[c].name = name /\ IsDirInode(db, c)
  IN  SelectSeq(ChildrenOf(db, ROOT_ID), T)

\* ---------------------------------------------------------------------- C6
\* C6: a cd that fails because a segment names no child of the position
\* reached leaves current, previous and the cached child list as they were
\* before the command.
C6_NoSuchChildRollsBack ==
  (CdIssued /\ cmd.err = "NoSuchChild") => sh = cmd.pre

\* C6 witness: cd proj/nope/src was issued where proj is a directory child of
\* the cursor, so one segment had been followed before the failing one
C6_Witness ==
  /\ CdIssued
  /\ cmd.arg = << <<"proj", "/", "nope", "/", "src">> >>
  /\ cmd.err = "NoSuchChild"
  /\ ChildrenNamed(cmd.pre, db, "proj") # <<>>
  /\ IsDirInode(db, ChildrenNamed(cmd.pre, db, "proj")[1])

\* ---------------------------------------------------------------------- C7
\* C7: cd .. at the synthetic root fails with NoParent and leaves the cursor at
\* the root; a cd whose ".." segment is reached at the root (proj/../.. from
\* the root) fails with NoParent, and every cd that fails with NoParent leaves
\* the navigation state as it was before the command.
C7_NoParentAtRoot ==
  /\ (CdIssued /\ cmd.arg = << <<"..">> >> /\ cmd.pre.current.id = ROOT_ID)
       => (cmd.err = "NoParent" /\ sh.current.id = ROOT_ID)
  /\ (CdIssued /\ cmd.arg = << <<"proj", "/", "..", "/", "..">> >>
         /\ cmd.pre.current.id = ROOT_ID /\ RootDirsNamed("proj") # <<>>)
       => cmd.err = "NoParent"
  /\ (CdIssued /\ cmd.err = "NoParent") => sh = cmd.pre

\* C7 witness: cd proj/../.. was issued at the root of a store that holds the
\* directory proj, and it failed with NoParent
C7_Witness ==
  /\ CdIssued
  /\ cmd.arg = << <<"proj", "/", "..", "/", "..">> >>
  /\ cmd.pre.current.id = ROOT_ID
  /\ RootDirsNamed("proj") # <<>>
  /\ cmd.err = "NoParent"

\* ---------------------------------------------------------------------- C8
\* C8 (as claimed): after a successful cd that moves the cursor from p to a
\* different q, previous is p.
C8_PreviousIsPriorCursor ==
  (CdIssued /\ cmd.err = "none" /\ sh.current.id # cmd.pre.current.id)
    => sh.last.id = cmd.pre.current.id

\* ---------------------------------------------------------------------- C9
\* C9 (as claimed): a path expression that begins with "/" is resolved from the
\* synthetic root: cd / ends at the root and cd /proj at the root's child proj.
C9_AbsoluteFromRoot ==
  /\ (CdIssued /\ cmd.arg = << <<"/">> >>) => sh.current.id = ROOT_ID
  /\ (CdIssued /\ cmd.arg = << <<"/", "proj">> >> /\ RootDirsNamed("proj") # <<>>)
       => sh.current.id = RootDirsNamed("proj")[1]

\* --------------------------------------------------------------------- C10
\* C10 (as claimed): cd with an empty argument moves the cursor to the
\* synthetic root, sets previous to the cursor before the command, raises no
\* error and leaves the session running.
C10_EmptyCdGoesToRoot ==
  (CdIssued /\ cmd.arg = <<>>) =>
    /\ sh.current.id = ROOT_ID
    /\ sh.last = cmd.pre.current
    /\ cmd.err = "none"
    /\ proc = "shell"

\* --------------------------------------------------------------------- C11
\* a path joined with a name; the empty name (the basename of "/") adds nothing
JoinName(path, name) == IF name = "" THEN path ELSE Append(path, name)

\* C11: every Inode has exactly one FullPath row, and for every Inode other
\* than the synthetic root it is the FullPath of its Directory parent joined
\* with its name: "/" + basename for the root of an indexed subtree, parent
\* path + "/" + name below it.
C11_FullPathIsParentPathPlusName ==
  \A i \in InodeIds(db) :
    /\ Len(PathsOf(db, i)) = 1
    /\ \A k \in ParentRows(db, i) :
         /\ Len(PathsOf(db, db.directory[k].inode)) = 1
         /\ PathsOf(db, i)[1]
              = JoinName(PathsOf(db, db.directory[k].inode)[1], db.inodes[i].name)

\* C11 witness: /home was indexed, so the store holds the root of a subtree
\* (/home) and a descendant two levels below it (/home/proj/src)
C11_Witness ==
  /\ pc = "idle"
  /\ outcome = "ok"
  /\ call.path = <<"home">>
  /\ \E i \in NewIds : PathsOf(db, i) = << <<"home", "proj", "src">> >>
  /\ \E i \in NewIds : PathsOf(db, i) = << <<"home">> >> /\ ROOT_ID \in { db.directory[k].inode : k \in ParentRows(db, i) }

\* --------------------------------------------------------------------- C12
\* the children of the synthetic root
RootChildren == { db.directory[k].child : k \in { j \in 1..Len(db.directory) : db.directory[j].inode = ROOT_ID } }

\* C12 (as claimed): no two children of the synthetic root share a FullPath,
\* index being rejected with DuplicateIndex whenever a child of the root
\* already has the virtual path "/" + basename.
C12_RootChildrenHaveDistinctPaths ==
  /\ \A i, j \in RootChildren : (i # j) => PathsOf(db, i) # PathsOf(db, j)
  /\ (CallEnded /\ IsDir(call.arg)
        /\ \E i \in { call.pre.directory[k].child :
                         k \in { j \in 1..Len(call.pre.directory) : call.pre.directory[j].inode = ROOT_ID } } :
              PathsOf(call.pre, i) = << NewRootPath(call.path) >>)
       => outcome = "DuplicateIndex"

\* --------------------------------------------------------------------- C13
\* C13 (as claimed): after an index invocation has returned, the store holds a
\* User row for the owner and a Group row for the group of every stored Inode.
C13_IdentityRowsExist ==
  (pc = "idle" /\ outcome = "ok") =>
    \A i \in InodeIds(db) :
      db.inodes[i].owner \in db.users /\ db.inodes[i].group \in db.groups

\* --------------------------------------------------------------------- C14
\* the number of positions of a sequence that hold x
Occurrences(seq, x) == Cardinality({ k \in 1..Len(seq) : seq[k] = x })

\* the names of a sequence of Inodes
NamesOf(d, inodes) == [k \in 1..Len(inodes) |-> d.inodes[inodes[k]].name]

\* C14: in every reachable store, for every stored Inode t, list_inode(t)
\* returns each child of a Directory row (t, c) once and nothing else when t is a
\* directory, and the single Inode t when t is not a directory or get_self is
\* set; and after an ls without paths the printed names are the names of the
\* children of the cursor (without the dot names unless -a), each as often as it
\* occurs among them, in ascending order of name.
C14_ListIsDirectChildrenSorted ==
  /\ \A t \in InodeIds(db) :
       LET l == ListInode(db, t, FALSE)
           rows == { k \in 1..Len(db.directory) : db.directory[k].inode = t }
       IN  /\ ListInode(db, t, TRUE) = <<t>>
           /\ db.inodes[t].node_type # DIRECTORY => l = <<t>>
           /\ db.inodes[t].node_type = DIRECTORY =>
                /\ { l[k] : k \in 1..Len(l) } = { db.directory[k].child : k \in rows }
                /\ Len(l) = Cardinality(rows)
  /\ (cmds > 0 /\ cmd.name = "ls" /\ cmd.arg.paths = <<>>) =>
       LET rows == { k \in 1..Len(db.directory) : db.directory[k].inode = sh.current.id }
           shown == { k \in rows :
                       cmd.arg.hidden \/ ~StartsWithDot(db.inodes[db.directory[k].child].name) }
       IN  /\ Len(cmd.out) = Cardinality(shown)
           /\ \A n \in { db.inodes[db.directory[k].child].name : k \in rows } :
                Occurrences(cmd.out, n) =
                  Cardinality({ k \in shown : db.inodes[db.directory[k].child].name = n })
           /\ \A j \in 1..(Len(cmd.out) - 1) : NameRank(cmd.out[j]) <= NameRank(cmd.out[j + 1])

\* an ls in /home, indexed with its subdirectory: the children enumerated in an
\* order other than the one of their names, the dot name left out, and an Inode
\* below proj that is no child of the cursor
C14_Witness ==
  /\ cmds > 0 /\ cmd.name = "ls" /\ cmd.arg = [hidden |-> FALSE, paths |-> <<>>]
  /\ cmd.out = <<"notes", "proj">>
  /\ NamesOf(db, sh.children) = <<"proj", ".cfg", "notes">>
  /\ \E k \in 1..Len(db.ancestor) :
       db.ancestor[k].ancestor = sh.current.id /\ db.inodes[db.ancestor[k].inode].name = "src"

\* --------------------------------------------------------------------- C15
\* C15: after a cd whose path has a segment that names a child of the position
\* reached which is not a directory, the cursor, the previous position and the
\* cached children are those before the command, whatever segments follow.
C15_NotADirectoryFailsWhole ==
  (CdIssued /\ cmd.err = "NotADirectory") => sh = cmd.pre

\* --------------------------------------------------------------------- C16
\* C16: in every reachable state, inside a traversal too, every Ancestor row
\* (a, x) has a among the Inodes reached from x by following Directory rows from
\* child to parent, no row has a = x, no two rows are equal, and no two rows are
\* (a, x) and (x, a).
C16_ClosureSoundAndAcyclic ==
  \A k \in 1..Len(db.ancestor) :
    LET a == db.ancestor[k].ancestor
        x == db.ancestor[k].inode
    IN  /\ a \in ParentChain(db, x, Len(db.inodes))
        /\ a # x
        /\ \A j \in 1..Len(db.ancestor) :
             /\ (j # k => db.ancestor[j] # db.ancestor[k])
             /\ db.ancestor[j] # [ancestor |-> x, inode |-> a]

\* inside the traversal of /home, proj just scanned and its directory src still
\* on the stack: src has the rows (home, src) and (proj, src)
C16_Witness ==
  /\ pc = "tx" /\ call.path = <<"home">> /\ stack # <<>>
  /\ \E x \in InodeIds(db) :
       /\ db.inodes[x].name = "src"
       /\ Cardinality(ClosureOf(db, x)) = 2
       /\ \E a \in ClosureOf(db, x) : db.inodes[a].name = "proj"
       /\ call.root \in ClosureOf(db, x)

\* --------------------------------------------------------------------- C17
\* a sequence without two equal elements
NoRepeat(seq) == \A j, k \in 1..Len(seq) : seq[j] = seq[k] => j = k

\* C17: an index invocation that has entered its traversal, with nothing denied
\* or changed by the environment meanwhile, ends normally with the stack empty;
\* it has popped each directory of the subtree once, pushed none twice, and the
\* Inodes it created are one for each entry of the subtree that is a directory,
\* a regular file or a symbolic link.
C17_TraversalCompletesOncePerEntry ==
  (CallEnded /\ call.root # INVALID_INODE /\ call.env = NoEnv) =>
    LET expected == ExpectedNodes(CallDir, {})
    IN  /\ outcome = "ok"
        /\ stack = <<>>
        /\ NoRepeat(call.popped)
        /\ NoRepeat(call.pushed)
        /\ { OsPath(call.popped[k]) : k \in 1..Len(call.popped) }
             = { n.path : n \in { e \in expected : Classify(e.path) = DIRECTORY } }
        /\ Cardinality(NewIds) = Cardinality(expected)
        /\ \A n \in expected :
             \E i \in NewIds : PathsOf(db, i) = <<VirtualPath(CallDir, n.path)>>

\* --------------------------------------------------------------------- C18
\* C18: in every state of a shell session, from its construction on and after
\* any sequence of commands, the cursor is the id of a stored Inode of type
\* Directory, and so is the previous position.
C18_CursorIsStoredDirectory ==
  sh # NoSh => IsDirInode(db, sh.current.id) /\ IsDirInode(db, sh.last.id)

\* a cd to a child that is a regular file has been refused, after an earlier cd
\* had moved the cursor off the root
C18_Witness ==
  /\ CdIssued /\ cmd.arg = << <<"README">> >> /\ cmd.err = "NotADirectory"
  /\ \E c \in 1..Len(cmd.pre.children) :
       /\ db.inodes[cmd.pre.children[c]].name = "README"
       /\ db.inodes[cmd.pre.children[c]].node_type = FILE
  /\ sh.current.id # ROOT_ID
  /\ sh.last.id # sh.current.id

\* --------------------------------------------------------------------- C19
\* C19: in every state of a shell session (the store does not change during
\* it), after its construction and after every command, whether it succeeded,
\* failed or was rolled back, the cached child list holds each child of a
\* Directory row of the cursor once and nothing else.
C19_CachedChildrenAreCursorChildren ==
  sh # NoSh =>
    LET rows == { k \in 1..Len(db.directory) : db.directory[k].inode = sh.current.id }
    IN  /\ { sh.children[k] : k \in 1..Len(sh.children) } = { db.directory[k].child : k \in rows }
        /\ Len(sh.children) = Cardinality(rows)

\* a cd from /proj that went down to src, back up, and was rolled back at a
\* segment naming no child: the cache holds the children of /proj, not of src
C19_Witness ==
  /\ CdIssued
  /\ cmd.arg = << <<"src", "/", "..", "/", "nope">> >>
  /\ cmd.err = "NoSuchChild"
  /\ cmd.pre.current.id # ROOT_ID
  /\ ChildrenNamed(cmd.pre, db, "src") # <<>>
  /\ ChildrenOf(db, ChildrenNamed(cmd.pre, db, "src")[1]) # <<>>
  /\ Len(sh.children) > 2

\* --------------------------------------------------------------------- C20
\* the argument list of "cd -"
Dash == << <<"-">> >>

\* C20: a "cd -" issued with cursor c and previous position p, two different
\* Inodes, ends with cursor p and previous position c; and in every state of a
\* shell session two "cd -" in a row end with the cursor and the previous
\* position the session has now.
C20_DashIsInvolution ==
  /\ (CdIssued /\ cmd.arg = Dash /\ cmd.pre.current.id # cmd.pre.last.id) =>
       /\ sh.current = cmd.pre.last
       /\ sh.last = cmd.pre.current
  /\ sh # NoSh =>
       LET once  == DoCd(sh, db, rootRef, Dash).sh
           twice == DoCd(once, db, rootRef, Dash).sh
       IN  twice.current = sh.current /\ twice.last = sh.last

\* a "cd -" has brought the session from a directory below the root back to
\* the root, and the next one would leave the root again
C20_Witness ==
  /\ CdIssued /\ cmd.arg = Dash
  /\ cmd.pre.current.id # ROOT_ID /\ cmd.pre.last.id = ROOT_ID
  /\ sh.current.id = ROOT_ID /\ sh.last.id = cmd.pre.current.id
  /\ DoCd(sh, db, rootRef, Dash).sh.current.id # ROOT_ID
====
